---- MODULE Spec2Model ----
(***************************************************************************)
(* A model of magenta/models/structured_melody_rnn/                        *)
(* structured_melody_rnn_graph.py: the window extractor, the window        *)
(* encoder, the similarity-weighted attention over past labels, the        *)
(* recurrent cell factory and build_graph with its three modes.            *)
(*                                                                         *)
(* Tensors are records [dims, elems]: dims is the shape and elems the      *)
(* row-major sequence of the elements, which is how tf.reshape sees them.  *)
(* Indices are 0-based as in the source.  Float values the code computes   *)
(* with integers stay integers; the output of a softmax is an exact        *)
(* fraction <<numerator, denominator>> in lowest terms.                    *)
(***************************************************************************)
EXTENDS Integers, Sequences, FiniteSets, TLC

VARIABLES
    mode,          \* build_graph's mode argument
    config,        \* build_graph's config argument: hparams and encoder_decoder
    pc,            \* the position of the running function
    graph,         \* the tensors of the tf.Graph under construction, by name
    collections,   \* tf.add_to_collection: name -> the handles registered
    config_read,   \* the fields of config read so far
    raised,        \* the exception that ended the call, or "none"
    returned,      \* what build_graph returned
    feed,          \* the values fed to a call or to a session run
    fetched        \* the values the call or the run produced

vars == <<mode, config, pc, graph, collections, config_read, raised,
          returned, feed, fetched>>

(***************************************************************************)
(* Bounds of the model.                                                    *)
(***************************************************************************)
MaxBatch == 2
MaxQuerySteps == 4
MaxKeySteps == 2
MaxClasses == 2
MaxWindow == 2
MaxSteps == 2
MaxInputSize == 2
MaxBatchSteps == 3
MaxInvocations == 3

\* Values a self-similarity entry is drawn from.
SimVals == 0..1
\* Values an input feature is drawn from.
InputVals == 0..1
\* The trained kernels of the window encoder the model tries.
Thetas == 1..2
\* Values fed to the temperature placeholder.
Temperatures == -1..1

(***************************************************************************)
(* Arithmetic.                                                             *)
(***************************************************************************)
\* v bound to a name in F: TLC evaluates an operator's argument once.
Let(v, F(_)) == F(v)

Max(a, b) == IF a >= b THEN a ELSE b
Min(a, b) == IF a <= b THEN a ELSE b
Abs(a) == IF a < 0 THEN -a ELSE a

RECURSIVE Prod(_)
Prod(s) == IF s = <<>> THEN 1 ELSE Head(s) * Prod(Tail(s))

RECURSIVE SeqSum(_)
SeqSum(s) == IF s = <<>> THEN 0 ELSE Head(s) + SeqSum(Tail(s))

RECURSIVE Gcd(_, _)
Gcd(a, b) == IF b = 0 THEN a ELSE Gcd(b, a % b)

\* Exact fractions <<n, d>> with d > 0, in lowest terms.
Frac(n, d) == LET g == Gcd(Abs(n), d) IN <<n \div g, d \div g>>
FZero == <<0, 1>>
FOne == <<1, 1>>
FAdd(x, y) == Frac(x[1] * y[2] + y[1] * x[2], x[2] * y[2])
FScale(x, k) == Frac(x[1] * k, x[2])

RECURSIVE FSeqSum(_)
FSeqSum(s) == IF s = <<>> THEN FZero ELSE FAdd(Head(s), FSeqSum(Tail(s)))

\* The exponential of the softmax, to base 2 instead of e: positive, strictly
\* increasing and Exp(a + b) = Exp(a) * Exp(b), on the integers the model uses.
Exp(x) == 2 ^ x

(***************************************************************************)
(* Tensors.                                                                *)
(***************************************************************************)
\* The index tuple of the n-th element (from 0) in row-major order, and back,
\* for the ranks the code uses (1 to 4).
Unravel(n, dims) ==
    CASE Len(dims) = 1 -> <<n>>
      [] Len(dims) = 2 -> <<n \div dims[2], n % dims[2]>>
      [] Len(dims) = 3 -> <<n \div (dims[2] * dims[3]), (n \div dims[3]) % dims[2],
                            n % dims[3]>>
      [] Len(dims) = 4 -> <<n \div (dims[2] * dims[3] * dims[4]),
                            (n \div (dims[3] * dims[4])) % dims[2],
                            (n \div dims[4]) % dims[3], n % dims[4]>>

Ravel(ix, dims) ==
    CASE Len(dims) = 1 -> ix[1]
      [] Len(dims) = 2 -> ix[1] * dims[2] + ix[2]
      [] Len(dims) = 3 -> (ix[1] * dims[2] + ix[2]) * dims[3] + ix[3]
      [] Len(dims) = 4 -> ((ix[1] * dims[2] + ix[2]) * dims[3] + ix[3]) * dims[4]
                          + ix[4]

Tensor(dims, f(_)) ==
    [dims |-> dims,
     elems |-> <<>> \o [n \in 1..Prod(dims) |-> f(Unravel(n - 1, dims))]]

At(t, ix) == t.elems[Ravel(ix, t.dims) + 1]

\* The sub-tensor t[i] along the leading axis.
Unstack(t, i) == Tensor(Tail(t.dims), LAMBDA ix : At(t, <<i>> \o ix))

\* A Python slice bound s on an axis of length n, as tf.strided_slice reads it:
\* a negative bound counts from the end, and the result is clamped to 0..n.
PyBound(s, n) == IF s < 0 THEN Max(s + n, 0) ELSE Min(s, n)

\* t[..., begin:end, ...] on axis `axis` (0-based), begin and end already in 0..n.
SliceAxis(t, axis, begin, end) ==
    LET len == Max(end - begin, 0)
    IN  Tensor([t.dims EXCEPT ![axis + 1] = len],
               LAMBDA ix : At(t, [ix EXCEPT ![axis + 1] = @ + begin]))

\* t[..., :stop, ...] and t[..., start:, ...] with Python's bounds.
SliceTo(t, axis, stop) == SliceAxis(t, axis, 0, PyBound(stop, t.dims[axis + 1]))
SliceFrom(t, axis, start) ==
    SliceAxis(t, axis, PyBound(start, t.dims[axis + 1]), t.dims[axis + 1])

tf_zeros(dims) == Tensor(dims, LAMBDA ix : 0)
tf_zeros_like(t) == tf_zeros(t.dims)
tf_shape(t) == t.dims
tf_range(lo, hi) == [k \in 1..Max(hi - lo, 0) |-> lo + k - 1]
tf_expand_dims_last(t) == [dims |-> Append(t.dims, 1), elems |-> t.elems]

tf_concat(a, b, axis) ==
    Tensor([a.dims EXCEPT ![axis + 1] = @ + b.dims[axis + 1]],
           LAMBDA ix : IF ix[axis + 1] < a.dims[axis + 1]
                       THEN At(a, ix)
                       ELSE At(b, [ix EXCEPT ![axis + 1] = @ - a.dims[axis + 1]]))

\* tf.transpose(t, perm): output axis k is input axis perm[k].
tf_transpose(t, perm) ==
    Tensor([k \in 1..Len(perm) |-> t.dims[perm[k] + 1]],
           LAMBDA ix : At(t, [a \in 1..Len(perm) |->
                                ix[CHOOSE k \in 1..Len(perm) : perm[k] + 1 = a]]))

\* tf.reshape: the same elements in row-major order under a new shape, one
\* entry of which may be -1 and is then inferred.
tf_reshape(t, shape) ==
    LET known == Prod([k \in 1..Len(shape) |->
                         IF shape[k] = -1 THEN 1 ELSE shape[k]])
    IN  [dims |-> [k \in 1..Len(shape) |->
                     IF shape[k] = -1 THEN Len(t.elems) \div known ELSE shape[k]],
         elems |-> t.elems]

\* tf.one_hot(labels, depth): a label outside 0..depth-1 gives a zero row.
tf_one_hot(labels, depth) ==
    Tensor(Append(labels.dims, depth),
           LAMBDA ix : IF At(labels, SubSeq(ix, 1, Len(labels.dims)))
                          = ix[Len(ix)] THEN 1 ELSE 0)

\* tf.nn.softmax over the last axis of a rank-2 tensor of integers.
tf_softmax(t) ==
    Tensor(t.dims,
           LAMBDA ix : Frac(Exp(At(t, ix)),
                            SeqSum([j \in 1..t.dims[2] |->
                                      Exp(At(t, <<ix[1], j - 1>>))])))

\* The float value of an integer entry, as a fraction.
AsFrac(t) == Tensor(t.dims, LAMBDA ix : <<At(t, ix), 1>>)

\* tf.matmul(a, b, transpose_b=True) of integer tensors [B, Q, E] and [B, K, E].
tf_matmul_transpose_b(a, b) ==
    Tensor(<<a.dims[1], a.dims[2], b.dims[2]>>,
           LAMBDA ix : SeqSum([e \in 1..a.dims[3] |->
                                 At(a, <<ix[1], ix[2], e - 1>>)
                                 * At(b, <<ix[1], ix[3], e - 1>>)]))

\* tf.matmul(a, b) of a tensor of fractions [B, Q, K] and an integer tensor
\* [B, K, C].
tf_matmul(a, b) ==
    Tensor(<<a.dims[1], a.dims[2], b.dims[3]>>,
           LAMBDA ix : FSeqSum([j \in 1..a.dims[3] |->
                                  FScale(At(a, <<ix[1], ix[2], j - 1>>),
                                         At(b, <<ix[1], j - 1, ix[3]>>))]))

\* tf.extract_image_patches on [B, R, C, D] with ksizes [1, krows, kcols, 1],
\* unit strides and rates, padding VALID: one patch per position where the
\* kernel fits, flattened in (row, column, depth) order.
tf_extract_image_patches(x, krows, kcols) ==
    Tensor(<<x.dims[1], x.dims[2] - krows + 1, x.dims[3] - kcols + 1,
             krows * kcols * x.dims[4]>>,
           LAMBDA ix : At(x, <<ix[1],
                               ix[2] + (ix[4] \div (kcols * x.dims[4])),
                               ix[3] + ((ix[4] \div x.dims[4]) % kcols),
                               ix[4] % x.dims[4]>>))

\* tf.squeeze(t, axis=2) of a rank-4 tensor whose axis 2 has length 1.
tf_squeeze_axis2(t) ==
    [dims |-> <<t.dims[1], t.dims[2], t.dims[4]>>, elems |-> t.elems]

relu(x) == Max(x, 0)

\* The kernel [1, width, 1, num_outputs] of the encoder's convolution for the
\* trained parameters theta: entries in -1..1.
Kernel(theta, width, num_outputs) ==
    Tensor(<<1, width, 1, num_outputs>>,
           LAMBDA ix : ((ix[2] + ix[4] + theta) % 3) - 1)

\* tf.contrib.layers.conv2d(x, num_outputs, [1, width], padding='VALID',
\* activation_fn=relu) on x of shape [B, n, width, 1].
convolve(x, weights, num_outputs, width) ==
    Tensor(<<x.dims[1], x.dims[2], x.dims[3] - width + 1, num_outputs>>,
           LAMBDA ix : relu(SeqSum([k \in 1..width |->
                              At(x, <<ix[1], ix[2], ix[3] + k - 1, 0>>)
                              * At(weights, <<0, k - 1, 0, ix[4]>>)])))

layers_conv2d(x, num_outputs, width, theta) ==
    convolve(x, Kernel(theta, width, num_outputs), num_outputs, width)

(***************************************************************************)
(* extract_input_windows and encode_input_windows.                         *)
(***************************************************************************)
\* Windows that start one step late.
extract_input_windows_late(inputs, batch_size, input_size, window_size) ==
    tf_reshape(tf_extract_image_patches(
                   tf_expand_dims_last(SliceFrom(inputs, 1, 1)),
                   window_size, input_size),
               <<batch_size, -1, input_size, window_size>>)

extract_input_windows(inputs, batch_size, input_size, window_size) ==
    LET input_windows ==
            tf_extract_image_patches(tf_expand_dims_last(inputs),
                                     window_size, input_size)
    IN  tf_reshape(input_windows, <<batch_size, -1, input_size, window_size>>)

encode_input_windows(input_windows, batch_size, input_size, window_size, encoding_size, theta) ==
    LET input_windows_flat ==
            tf_reshape(input_windows,
                       <<batch_size, -1, input_size * window_size, 1>>)
        encodings == layers_conv2d(input_windows_flat, encoding_size,
                                   input_size * window_size, theta)
    IN  tf_squeeze_axis2(encodings)

(***************************************************************************)
(* similarity_weighted_attention.                                          *)
(***************************************************************************)
\* Slice bounds one step early: the newest label is never attended.
attention_steps_early(num_input_steps, num_label_steps) ==
    tf_range(num_label_steps - num_input_steps, num_label_steps)

\* Slice bounds one step late: a step attends its own label.
attention_steps_late(num_input_steps, num_label_steps) ==
    tf_range(num_label_steps - num_input_steps + 2, num_label_steps + 2)

\* The range of the per-step slice bounds.
attention_steps(num_input_steps, num_label_steps) ==
    tf_range(num_label_steps - num_input_steps + 1, num_label_steps + 1)

\* The body mapped over the query steps: softmax over sim[:, :step], zeros after.
similarity_to_attention(step, sim) ==
    tf_concat(tf_softmax(SliceTo(sim, 1, step)),
              AsFrac(tf_zeros_like(SliceFrom(sim, 1, step))), 1)

\* tf.map_fn over the leading axis of (steps, permuted_self_similarity).
tf_stack(outputs, dims) ==
    Tensor(dims, LAMBDA ix : At(outputs[ix[1] + 1], Tail(ix)))

map_similarity_to_attention(steps, permuted) ==
    tf_stack(<<>> \o [i \in 1..Len(steps) |->
                       similarity_to_attention(steps[i], Unstack(permuted, i - 1))],
             permuted.dims)

\* The attention weights [batch, num_input_steps, num_label_steps].
attention_weights(self_similarity) ==
    LET num_input_steps == tf_shape(self_similarity)[2]
        num_label_steps == tf_shape(self_similarity)[3]
        steps == attention_steps(num_input_steps, num_label_steps)
        permuted_self_similarity == tf_transpose(self_similarity, <<1, 0, 2>>)
        permuted_attention ==
            map_similarity_to_attention(steps, permuted_self_similarity)
    IN  tf_transpose(permuted_attention, <<1, 0, 2>>)

\* The weighted sum of the one-hot labels.
attention_feature(attention, labels, num_classes) ==
    tf_matmul(attention, tf_one_hot(labels, num_classes))

similarity_weighted_attention(labels, self_similarity, num_classes) ==
    attention_feature(attention_weights(self_similarity), labels, num_classes)

(***************************************************************************)
(* Inputs of the attention function: every shape within the bounds, every  *)
(* first batch row over SimVals and the classes; the other batch rows are  *)
(* the first one with the similarities flipped and the labels rotated, so  *)
(* that the rows of a batch differ.                                        *)
(***************************************************************************)
AttentionInputsOf(B, Q, K, C) ==
    { [labels |-> Tensor(<<B, K>>, LAMBDA ix : (lab[ix[2] + 1] + ix[1]) % C),
       self_similarity |->
           Tensor(<<B, Q, K>>,
                  LAMBDA ix : IF ix[1] % 2 = 0
                              THEN sim[ix[2] * K + ix[3] + 1]
                              ELSE 1 - sim[ix[2] * K + ix[3] + 1]),
       num_classes |-> C]
      : sim \in [1..(Q * K) -> SimVals], lab \in [1..K -> 0..(C - 1)] }

AttentionInputs(feed_) ==
    \E B \in 1..MaxBatch, Q \in 0..MaxQuerySteps, K \in 0..MaxKeySteps,
       C \in 1..MaxClasses : feed_ \in AttentionInputsOf(B, Q, K, C)

(***************************************************************************)
(* The specification of one call of similarity_weighted_attention.         *)
(***************************************************************************)
Idle ==
    /\ mode = "none"
    /\ config = <<>>
    /\ graph = <<>>
    /\ collections = <<>>
    /\ config_read = {}
    /\ raised = "none"
    /\ returned = "nothing"

InitAttention ==
    /\ Idle
    /\ pc = "call"
    /\ AttentionInputs(feed)
    /\ fetched = <<>>

CallAttention ==
    /\ pc = "call"
    /\ "self_similarity" \in DOMAIN feed
    /\ fetched' = [attention |-> attention_weights(feed.self_similarity),
                   feature |-> similarity_weighted_attention(
                                   feed.labels, feed.self_similarity,
                                   feed.num_classes)]
    /\ pc' = "done"
    /\ UNCHANGED <<mode, config, graph, collections, config_read, raised,
                   returned, feed>>

NextAttention == CallAttention

SpecAttention == InitAttention /\ [][NextAttention]_vars

\* The aligned label position of query step i.
AlignedPosition(num_key_steps, num_query_steps, i) ==
    num_key_steps - num_query_steps + i + 1

\* C1: for every batch element and query step i, with p(i) the aligned
\* position, the weight is 0 at every key j >= p(i), the weights at j < p(i)
\* sum to 1 when p(i) >= 1, and when p(i) = 0 all weights and the feature of
\* the step are zero.
C1_CausalMask ==
    (pc = "done" /\ "attention" \in DOMAIN fetched) =>
        LET w == fetched.attention
            B == w.dims[1]
            Q == w.dims[2]
            K == w.dims[3]
        IN  \A b \in 0..(B - 1), i \in 0..(Q - 1) :
              LET p == AlignedPosition(K, Q, i)
              IN  /\ \A j \in 0..(K - 1) : j >= p => At(w, <<b, i, j>>) = FZero
                  /\ p >= 1 =>
                       FSeqSum([j \in 1..Min(p, K) |-> At(w, <<b, i, j - 1>>)]) = FOne
                  /\ p = 0 =>
                       /\ \A j \in 0..(K - 1) : At(w, <<b, i, j>>) = FZero
                       /\ \A c \in 0..(fetched.feature.dims[3] - 1) :
                            At(fetched.feature, <<b, i, c>>) = FZero

(***************************************************************************)
(* The specification of one call of extract_input_windows on a padded      *)
(* sequence of length window_size - 1 + T, followed by the encoding of     *)
(* the windows as build_graph does it.                                     *)
(***************************************************************************)
WindowInputsOf(B, T, size, window) ==
    { [inputs |-> Tensor(<<B, window - 1 + T, size>>,
                         LAMBDA ix : IF ix[1] % 2 = 0
                                     THEN x[ix[2] * size + ix[3] + 1]
                                     ELSE 1 - x[ix[2] * size + ix[3] + 1]),
       batch_size |-> B, input_size |-> size, window_size |-> window,
       num_steps |-> T, theta |-> 2]
      : x \in [1..((window - 1 + T) * size) -> InputVals] }

WindowInputs(feed_) ==
    \E B \in {1, MaxBatch}, T \in 0..MaxSteps, size \in 1..MaxInputSize,
       window \in 1..MaxWindow : feed_ \in WindowInputsOf(B, T, size, window)

InitWindows ==
    /\ Idle
    /\ pc = "call"
    /\ WindowInputs(feed)
    /\ fetched = <<>>

CallWindows ==
    /\ pc = "call"
    /\ "window_size" \in DOMAIN feed
    /\ LET input_windows ==
               extract_input_windows(feed.inputs, feed.batch_size,
                                     feed.input_size, feed.window_size)
       IN  fetched' = [input_windows |-> input_windows,
                       encodings |->
                           encode_input_windows(
                               input_windows, feed.batch_size, feed.input_size,
                               feed.window_size, 1, feed.theta)]
    /\ pc' = "done"
    /\ UNCHANGED <<mode, config, graph, collections, config_read, raised,
                   returned, feed>>

NextWindows == CallWindows

SpecWindows == InitWindows /\ [][NextWindows]_vars

\* The elements of window i of batch element b, in row-major order.
WindowElems(w, b, i) ==
    [n \in 1..(w.dims[3] * w.dims[4]) |->
        At(w, <<b, i, (n - 1) \div w.dims[4], (n - 1) % w.dims[4]>>)]

\* The elements of the padded steps from..(from + count - 1) of batch element
\* b, step after step.
StepElems(x, b, from, count) ==
    [n \in 1..(count * x.dims[3]) |->
        At(x, <<b, from + ((n - 1) \div x.dims[3]), (n - 1) % x.dims[3]>>)]

\* C2: on a padded sequence of length window_size - 1 + T the extractor
\* returns exactly T windows, window i holds exactly the padded steps
\* i .. i + window_size - 1, with window_size = 1 the windows are the input
\* steps themselves, and there is one encoding per window.
C2_Windows ==
    (pc = "done" /\ "input_windows" \in DOMAIN fetched) =>
        LET w == fetched.input_windows
        IN  /\ w.dims = <<feed.batch_size, feed.num_steps, feed.input_size,
                          feed.window_size>>
            /\ fetched.encodings.dims[2] = feed.num_steps
            /\ \A b \in 0..(feed.batch_size - 1), i \in 0..(feed.num_steps - 1) :
                 /\ WindowElems(w, b, i)
                      = StepElems(feed.inputs, b, i, feed.window_size)
                 /\ feed.window_size = 1 =>
                      \A a \in 0..(feed.input_size - 1) :
                        At(w, <<b, i, a, 0>>) = At(feed.inputs, <<b, i, a>>)

\* A call with a window longer than one step over more than one step.
C2_Witness ==
    /\ pc = "done"
    /\ "input_windows" \in DOMAIN fetched
    /\ feed.window_size = 2
    /\ feed.num_steps = 2
    /\ feed.input_size = 2
    /\ fetched.input_windows.dims[2] = 2
    /\ \E n \in DOMAIN feed.inputs.elems : feed.inputs.elems[n] = 1

(***************************************************************************)
(* make_rnn_cell: one record per layer of the MultiRNNCell.  The attention *)
(* wrapper goes on the first layer when attn_length is non-zero, and every *)
(* layer gets the dropout wrapper.  Keep-probabilities are in percent.     *)
(***************************************************************************)
make_rnn_cell(rnn_layer_sizes, dropout_keep_prob, attn_length) ==
    [n \in 1..Len(rnn_layer_sizes) |->
        [num_units |-> rnn_layer_sizes[n],
         attn_length |-> IF attn_length # 0 /\ n = 1 THEN attn_length ELSE 0,
         output_keep_prob |-> dropout_keep_prob]]

\* tf_nest.flatten of the cell's state: (c, h) per layer, and the attention
\* vector and the attention states besides on a layer with the wrapper.
flatten_state(cell) ==
    SeqSum([n \in 1..Len(cell) |-> IF cell[n].attn_length # 0 THEN 4 ELSE 2])

(***************************************************************************)
(* build_graph.                                                            *)
(***************************************************************************)
NoGraph == <<>>
NoCollections == <<>>
FullKeep == 100

\* A build_graph without the mode check.
valid_mode_unchecked(m) == TRUE

valid_mode(m) == m \in {"train", "eval", "generate"}

\* The fields build_graph reads from config once the mode is accepted.
config_fields ==
    {"hparams", "encoder_decoder", "input_size", "num_classes",
     "default_event_label"}

\* The input nodes of a train or eval graph.  A dimension of -1 is unknown.
train_eval_inputs(hp, input_size) ==
    [inputs |-> [op |-> "get_padded_batch", dims |-> <<hp.batch_size, -1, input_size>>],
     labels |-> [op |-> "get_padded_batch", dims |-> <<hp.batch_size, -1>>],
     lengths |-> [op |-> "get_padded_batch", dims |-> <<hp.batch_size>>],
     input_buffer |->
         [op |-> "zeros", dims |-> <<hp.batch_size, hp.window_size - 1, input_size>>],
     past_encodings |->
         [op |-> "zeros", dims |-> <<hp.batch_size, 0, hp.encoding_size>>],
     target_labels |-> [op |-> "drop_last", dims |-> <<hp.batch_size, -1>>]]

\* A generate graph that pads with zeros as the training graph does.
generate_inputs_zero_buffer(hp, input_size) ==
    [inputs |-> [op |-> "placeholder", dims |-> <<hp.batch_size, -1, input_size>>],
     input_buffer |->
         [op |-> "zeros", dims |-> <<hp.batch_size, hp.window_size - 1, input_size>>],
     labels |-> [op |-> "placeholder", dims |-> <<hp.batch_size, -1>>],
     past_encodings |->
         [op |-> "zeros", dims |-> <<hp.batch_size, 0, hp.encoding_size>>],
     target_labels |-> [op |-> "labels", dims |-> <<hp.batch_size, -1>>]]

\* The input nodes of a generate graph.
generate_inputs(hp, input_size) ==
    [inputs |-> [op |-> "placeholder", dims |-> <<hp.batch_size, -1, input_size>>],
     input_buffer |->
         [op |-> "placeholder",
          dims |-> <<hp.batch_size, hp.window_size - 1, input_size>>],
     labels |-> [op |-> "placeholder", dims |-> <<hp.batch_size, -1>>],
     past_encodings |->
         [op |-> "placeholder", dims |-> <<hp.batch_size, -1, hp.encoding_size>>],
     target_labels |-> [op |-> "labels", dims |-> <<hp.batch_size, -1>>]]

\* The nodes that exist when the framework rejects the size of the input
\* buffer: those created before it.
inputs_before_buffer(m, hp, input_size) ==
    IF m = "generate"
    THEN [inputs |-> generate_inputs(hp, input_size).inputs]
    ELSE [inputs |-> train_eval_inputs(hp, input_size).inputs,
          labels |-> train_eval_inputs(hp, input_size).labels,
          lengths |-> train_eval_inputs(hp, input_size).lengths]

input_nodes(m, hp, input_size) ==
    IF m = "train" \/ m = "eval"
    THEN train_eval_inputs(hp, input_size)
    ELSE generate_inputs(hp, input_size)

\* A cell that keeps the configured dropout in every mode.
cell_dropout_keep_prob_configured(m, hp) == hp.dropout_keep_prob

cell_dropout_keep_prob(m, hp) ==
    IF m = "generate" THEN FullKeep ELSE hp.dropout_keep_prob

cell_attn_length(hp) ==
    IF "attn_length" \in DOMAIN hp THEN hp.attn_length ELSE 0

\* The recurrent nodes: the cell and its zero initial state.
recurrent_nodes(m, hp) ==
    LET cell == make_rnn_cell(hp.rnn_layer_sizes, cell_dropout_keep_prob(m, hp),
                              cell_attn_length(hp))
    IN  [cell |-> cell,
         initial_state |-> [op |-> "zero_state", dims |-> <<flatten_state(cell)>>]]

\* The collections each mode registers: name -> number of handles.
train_metrics ==
    {"loss", "metrics/perplexity", "metrics/accuracy", "metrics/event_accuracy",
     "metrics/no_event_accuracy"}

eval_metrics ==
    {"loss", "metrics/accuracy", "metrics/per_class_accuracy",
     "metrics/event_accuracy", "metrics/no_event_accuracy"}

train_collections ==
    [name \in {"train_op"} \cup train_metrics |-> 1]

eval_collections ==
    [name \in {"eval_ops"} \cup eval_metrics \cup {"metrics/perplexity"} |->
        IF name = "eval_ops" THEN Cardinality(eval_metrics) ELSE 1]

generate_names ==
    {"inputs", "input_buffer", "labels", "past_encodings", "encodings",
     "temperature", "softmax", "initial_state", "final_state"}

generate_collections(cell) ==
    [name \in generate_names |->
        IF name \in {"initial_state", "final_state"}
        THEN flatten_state(cell) ELSE 1]

\* A build_graph that registers the eval update ops when training too.
mode_collections_shared(m, cell) ==
    IF m = "train" THEN train_collections @@ eval_collections
    ELSE IF m = "eval" THEN eval_collections
    ELSE generate_collections(cell)

mode_collections(m, cell) ==
    IF m = "train" THEN train_collections
    ELSE IF m = "eval" THEN eval_collections
    ELSE generate_collections(cell)

\* The nodes only one mode adds after the recurrent core.
mode_nodes(m) ==
    IF m = "generate"
    THEN [temperature |-> [op |-> "placeholder", dims |-> <<>>],
          softmax |-> [op |-> "softmax", dims |-> <<>>]]
    ELSE IF m = "train"
    THEN [train_op |-> [op |-> "create_train_op", dims |-> <<>>]]
    ELSE [update_ops |-> [op |-> "aggregate_metric_map", dims |-> <<>>]]

\* The framework's part.  A window size below 1 makes the buffer's time
\* dimension negative and the patch kernel empty: a dimension of -1 is the
\* framework's notation for an unknown one, which it may accept, and a
\* smaller one it rejects.  A MultiRNNCell of no cells is rejected.
size_rejected(hp, framework_accepts) ==
    \/ hp.window_size < 0
    \/ hp.window_size = 0 /\ ~framework_accepts

cell_rejected(hp) == hp.rnn_layer_sizes = <<>>

\* The outcome of build_graph(mode, config): what it raised, the graph it
\* constructed, the collections it filled, the config fields it read and
\* whether it returned the graph.
build_graph(m, cfg, framework_accepts) ==
    IF ~valid_mode(m)
    THEN [raised |-> "ValueError", graph |-> NoGraph,
          collections |-> NoCollections, config_read |-> {},
          returned |-> "nothing"]
    ELSE LET hp == cfg.hparams
             input_size == cfg.encoder_decoder.input_size
         IN  IF ~(m = "train" \/ m = "eval" \/ m = "generate")
             THEN [raised |-> "NameError", graph |-> [inputs |-> "None"],
                   collections |-> NoCollections, config_read |-> config_fields,
                   returned |-> "nothing"]
             ELSE IF size_rejected(hp, framework_accepts)
             THEN [raised |-> "FrameworkError",
                   graph |-> inputs_before_buffer(m, hp, input_size),
                   collections |-> NoCollections, config_read |-> config_fields,
                   returned |-> "nothing"]
             ELSE IF cell_rejected(hp)
             THEN [raised |-> "FrameworkError",
                   graph |-> input_nodes(m, hp, input_size),
                   collections |-> NoCollections, config_read |-> config_fields,
                   returned |-> "nothing"]
             ELSE [raised |-> "none",
                   graph |-> input_nodes(m, hp, input_size)
                             @@ recurrent_nodes(m, hp) @@ mode_nodes(m),
                   collections |->
                       mode_collections(m, recurrent_nodes(m, hp).cell),
                   config_read |-> config_fields,
                   returned |-> "graph"]

(***************************************************************************)
(* The specification of one call of build_graph, over every mode and       *)
(* configuration within the bounds.                                        *)
(***************************************************************************)
Modes == {"train", "eval", "generate", "predict"}
WindowSizes == -1..MaxWindow
LayerSizes == {<<>>, <<2>>, <<2, 3>>}
KeepProbs == {50, 100}
AttnLengths == 0..1
EncodingSizes == {1}

HParams ==
    [batch_size : 1..MaxBatch, window_size : WindowSizes,
     encoding_size : EncodingSizes, rnn_layer_sizes : LayerSizes,
     dropout_keep_prob : KeepProbs]
    \cup
    [batch_size : 1..MaxBatch, window_size : WindowSizes,
     encoding_size : EncodingSizes, rnn_layer_sizes : LayerSizes,
     dropout_keep_prob : KeepProbs, attn_length : AttnLengths]

EncoderDecoders ==
    [input_size : 1..MaxInputSize, num_classes : 1..MaxClasses,
     default_event_label : {0}]

Configs == [hparams : HParams, encoder_decoder : EncoderDecoders]

Init ==
    /\ mode \in Modes
    /\ config \in Configs
    /\ pc = "start"
    /\ graph = NoGraph
    /\ collections = NoCollections
    /\ config_read = {}
    /\ raised = "none"
    /\ returned = "nothing"
    /\ feed = <<>>
    /\ fetched = <<>>

BuildGraph ==
    /\ pc = "start"
    /\ \E framework_accepts \in BOOLEAN :
         LET built == build_graph(mode, config, framework_accepts)
         IN  /\ graph' = built.graph
             /\ collections' = built.collections
             /\ config_read' = built.config_read
             /\ raised' = built.raised
             /\ returned' = built.returned
    /\ pc' = "built"
    /\ UNCHANGED <<mode, config, feed, fetched>>

Next == BuildGraph

Spec == Init /\ [][Next]_vars

\* C3: a mode other than 'train', 'eval' and 'generate' ends build_graph
\* with its ValueError before anything else happens: no graph is created, no
\* config field is read, nothing is registered and nothing is returned.
C3_InvalidModeFailsFast ==
    (pc = "built" /\ mode \notin {"train", "eval", "generate"}) =>
        /\ raised = "ValueError"
        /\ graph = NoGraph
        /\ config_read = {}
        /\ collections = NoCollections
        /\ returned = "nothing"

\* build_graph has ended on an invalid mode.
C3_Witness ==
    /\ pc = "built"
    /\ mode = "predict"
    /\ raised = "ValueError"
    /\ config.hparams.window_size >= 1
    /\ config.hparams.rnn_layer_sizes # <<>>

\* C4 as stated: in a generate graph the input buffer, the past labels, the
\* past encodings and the recurrent initial state are all placeholders; in a
\* train or eval graph the input buffer is zeros of length window_size - 1
\* and the past encodings are empty.
C4_AllHistoryIsPlaceholder ==
    returned = "graph" =>
        /\ mode = "generate" =>
             /\ graph.input_buffer.op = "placeholder"
             /\ graph.labels.op = "placeholder"
             /\ graph.past_encodings.op = "placeholder"
             /\ graph.initial_state.op = "placeholder"
        /\ mode \in {"train", "eval"} =>
             /\ graph.input_buffer.op = "zeros"
             /\ graph.input_buffer.dims[2] = config.hparams.window_size - 1
             /\ graph.past_encodings.op = "zeros"
             /\ graph.past_encodings.dims[2] = 0

\* C4 amended: in a generate graph the input buffer, the past labels and the
\* past encodings are placeholders, and the recurrent initial state is the
\* cell's zero state, built inside the graph as in every mode and registered
\* under 'initial_state'; in a train or eval graph the input buffer is zeros
\* of length window_size - 1 and the past encodings are empty.
C4_HistoryInputs ==
    returned = "graph" =>
        /\ graph.initial_state.op = "zero_state"
        /\ mode = "generate" =>
             /\ graph.input_buffer.op = "placeholder"
             /\ graph.labels.op = "placeholder"
             /\ graph.past_encodings.op = "placeholder"
             /\ "initial_state" \in DOMAIN collections
        /\ mode \in {"train", "eval"} =>
             /\ graph.input_buffer.op = "zeros"
             /\ graph.input_buffer.dims[2] = config.hparams.window_size - 1
             /\ graph.past_encodings.op = "zeros"
             /\ graph.past_encodings.dims[2] = 0

\* A generate graph with a window of two steps has been returned.
C4_Witness ==
    /\ returned = "graph"
    /\ mode = "generate"
    /\ config.hparams.window_size = 2
    /\ graph.input_buffer.dims[2] = 1
    /\ graph.initial_state.dims[1] > 0

\* C5: every layer of a generate graph's cell has keep-probability 1.0
\* whatever hparams.dropout_keep_prob is, and every layer of a train or eval
\* graph's cell has hparams.dropout_keep_prob.
C5_GenerateHasNoDropout ==
    returned = "graph" =>
        \A n \in DOMAIN graph.cell :
            graph.cell[n].output_keep_prob =
                IF mode = "generate" THEN 100
                ELSE config.hparams.dropout_keep_prob

\* A generate graph of two layers built from a configuration with dropout.
C5_Witness ==
    /\ returned = "graph"
    /\ mode = "generate"
    /\ config.hparams.dropout_keep_prob = 50
    /\ Len(graph.cell) = 2
    /\ graph.cell[2].output_keep_prob = 100

\* C7: a returned graph has exactly the collections of its mode: generate
\* the nine named handles and no train_op, eval_ops or metric; train the
\* train_op and the scalar metrics and no eval_ops; eval the eval_ops and the
\* scalar metrics and no train_op.  A call that fails registers nothing.
C7_ModeCollections ==
    /\ returned # "graph" => collections = NoCollections
    /\ returned = "graph" =>
        /\ mode = "generate" =>
             DOMAIN collections =
                 {"inputs", "input_buffer", "labels", "past_encodings",
                  "encodings", "temperature", "softmax", "initial_state",
                  "final_state"}
        /\ mode = "train" =>
             /\ "train_op" \in DOMAIN collections
             /\ "eval_ops" \notin DOMAIN collections
             /\ DOMAIN collections \ {"train_op"} =
                  {"loss", "metrics/perplexity", "metrics/accuracy",
                   "metrics/event_accuracy", "metrics/no_event_accuracy"}
        /\ mode = "eval" =>
             /\ "eval_ops" \in DOMAIN collections
             /\ "train_op" \notin DOMAIN collections
             /\ DOMAIN collections \ {"eval_ops"} =
                  {"loss", "metrics/perplexity", "metrics/accuracy",
                   "metrics/per_class_accuracy", "metrics/event_accuracy",
                   "metrics/no_event_accuracy"}

\* A train graph has been returned with its train_op registered.
C7_Witness ==
    /\ returned = "graph"
    /\ mode = "train"
    /\ "train_op" \in DOMAIN collections
    /\ collections["train_op"] = 1

\* C8: with window_size <= 0 and a valid mode, build_graph ends with its
\* configuration error and returns no graph.
C8_WindowSizeChecked ==
    (pc = "built" /\ mode \in {"train", "eval", "generate"}
       /\ config.hparams.window_size <= 0) =>
        /\ raised = "ValueError"
        /\ returned = "nothing"

(***************************************************************************)
(* Running a built graph.  forward is the part of the graph between the    *)
(* input nodes and the recurrent cell, evaluated on the values of one      *)
(* session run: a placeholder takes the value fed, a zeros node is zeros,  *)
(* a dataset node takes the batch read.                                    *)
(***************************************************************************)
node_value(node, name, vals) ==
    IF node.op = "zeros" THEN tf_zeros(node.dims) ELSE vals[name]

target_labels_value(node, labels) ==
    IF node.op = "drop_last" THEN SliceTo(labels, 1, -1) ELSE labels

\* The encodings every query step is compared with.
target_encodings_value(past_encodings, encodings) ==
    tf_concat(past_encodings, SliceTo(encodings, 1, -1), 1)

\* The inputs of the recurrent cell: the raw inputs and the attention feature,
\* similarity_weighted_attention(target_labels, self_similarity, num_classes)
\* with its weights given.
combined_inputs_value(inputs, attention, target_labels, num_classes) ==
    tf_concat(AsFrac(inputs),
              attention_feature(attention, target_labels, num_classes), 2)

\* The part of forward after the attention weights, which are evaluated once
\* and kept as a value of the run.
forward_attention(g, cfg, vals, input_windows, encodings, target_labels, target_encodings, attention) ==
    [input_windows |-> input_windows,
     encodings |-> encodings,
     target_encodings |-> target_encodings,
     target_labels |-> target_labels,
     attention |-> attention,
     combined_inputs |->
         combined_inputs_value(vals.inputs, attention, target_labels,
                               cfg.encoder_decoder.num_classes)]

forward_encodings(g, cfg, vals, input_windows, encodings, target_encodings) ==
    forward_attention(g, cfg, vals, input_windows, encodings,
                      target_labels_value(g.target_labels, vals.labels),
                      target_encodings,
                      attention_weights(
                          tf_matmul_transpose_b(encodings, target_encodings)))

forward_windows(g, cfg, vals, input_windows, encodings) ==
    forward_encodings(g, cfg, vals, input_windows, encodings,
                      target_encodings_value(
                          node_value(g.past_encodings, "past_encodings", vals),
                          encodings))

forward_padded(g, cfg, vals, theta, input_windows) ==
    forward_windows(g, cfg, vals, input_windows,
                    encode_input_windows(
                        input_windows, cfg.hparams.batch_size,
                        cfg.encoder_decoder.input_size, cfg.hparams.window_size,
                        cfg.hparams.encoding_size, theta))

forward(g, cfg, vals, theta) ==
    forward_padded(g, cfg, vals, theta,
                   extract_input_windows(
                       tf_concat(node_value(g.input_buffer, "input_buffer", vals),
                                 vals.inputs, 1),
                       cfg.hparams.batch_size, cfg.encoder_decoder.input_size,
                       cfg.hparams.window_size))

\* The same run with other labels fed: no node before the attention feature
\* reads the labels, so the windows, the encodings and the attention weights
\* are those of out.
forward_relabelled(g, cfg, out, inputs, labels) ==
    [out EXCEPT
       !.target_labels = target_labels_value(g.target_labels, labels),
       !.combined_inputs =
           combined_inputs_value(
               inputs, out.attention,
               target_labels_value(g.target_labels, labels),
               cfg.encoder_decoder.num_classes)]

\* The attention feature of a forward pass: combined_inputs without the
\* raw inputs.
attention_inputs_of(out, input_size) ==
    SliceFrom(out.combined_inputs, 2, input_size)

\* tf.nn.dynamic_rnn with the cell left uninterpreted: the state is the
\* sequence of the combined inputs consumed since the zero state.
zero_state == <<>>

dynamic_rnn(initial_state, combined_inputs) ==
    initial_state
    \o [t \in 1..combined_inputs.dims[2] |->
          SliceAxis(combined_inputs, 1, t - 1, t).elems]

\* The output softmax of a generate run: softmax(logits / temperature).  A
\* zero temperature divides by zero, which gives infinities and NaN and no
\* error; a negative one gives a distribution.
session_softmax(temperature) ==
    IF temperature = 0 THEN "nan" ELSE "distribution"

(***************************************************************************)
(* The specification of build_graph followed by runs of the graph: one     *)
(* batch through a train or eval graph, or a driver stepping a generate    *)
(* graph one input at a time.  The driver starts with empty label and      *)
(* past-encoding histories and a zero input buffer, and after each run     *)
(* appends the new encoding and the chosen label, shifts the input into    *)
(* the buffer and feeds the final state back.                              *)
(***************************************************************************)
\* The runs use two classes, the least with which a label can be changed,
\* and the smallest and the largest batch and window sizes.
RunClasses == {2}

RunHParams ==
    [batch_size : {1, MaxBatch}, window_size : {1, MaxWindow},
     encoding_size : EncodingSizes, rnn_layer_sizes : {<<2>>},
     dropout_keep_prob : {50}]

RunConfigs ==
    [hparams : RunHParams,
     encoder_decoder : [input_size : {1}, num_classes : RunClasses,
                        default_event_label : {0}]]

EmptySteps(dims) == [dims |-> dims, elems |-> <<>>]

DriverStart(cfg, theta) ==
    [theta |-> theta,
     k |-> 0,
     input_buffer |->
         tf_zeros(<<cfg.hparams.batch_size, cfg.hparams.window_size - 1,
                    cfg.encoder_decoder.input_size>>),
     labels |-> EmptySteps(<<cfg.hparams.batch_size, 0>>),
     past_encodings |->
         EmptySteps(<<cfg.hparams.batch_size, 0, cfg.hparams.encoding_size>>),
     initial_state |-> zero_state,
     inputs |-> EmptySteps(<<cfg.hparams.batch_size, 0,
                             cfg.encoder_decoder.input_size>>)]

InitRun ==
    /\ mode \in {"train", "eval", "generate"}
    /\ config \in RunConfigs
    /\ pc = "start"
    /\ graph = NoGraph
    /\ collections = NoCollections
    /\ config_read = {}
    /\ raised = "none"
    /\ returned = "nothing"
    /\ \E theta \in Thetas : feed = DriverStart(config, theta)
    /\ fetched = <<>>

\* A batch of T steps: the rows after the first are the first one with the
\* inputs flipped and the labels rotated.
BatchInputs(B, T, size, x) ==
    Tensor(<<B, T, size>>,
           LAMBDA ix : IF ix[1] % 2 = 0 THEN x[ix[2] * size + ix[3] + 1]
                       ELSE 1 - x[ix[2] * size + ix[3] + 1])

BatchLabels(B, T, C, lab) ==
    Tensor(<<B, T>>, LAMBDA ix : (lab[ix[2] + 1] + ix[1]) % C)

\* What one batch run and the run on the changed labels leave behind.
batch_fetched(labels, labels_alt, out, out_alt, input_size) ==
    [labels |-> labels,
     labels_alt |-> labels_alt,
     encodings |-> out.encodings,
     attention |-> out.attention,
     attention_inputs |-> attention_inputs_of(out, input_size),
     attention_inputs_alt |-> attention_inputs_of(out_alt, input_size),
     final_state |-> dynamic_rnn(zero_state, out.combined_inputs)]

batch_outputs(g, cfg, inputs, labels, labels_alt, out) ==
    batch_fetched(labels, labels_alt, out,
                  forward_relabelled(g, cfg, out, inputs, labels_alt),
                  cfg.encoder_decoder.input_size)

run_batch(g, cfg, theta, inputs, labels, labels_alt) ==
    batch_outputs(g, cfg, inputs, labels, labels_alt,
                  forward(g, cfg, [inputs |-> inputs, labels |-> labels], theta))

\* One batch through a train or eval graph, and the same batch with the
\* label of one step changed (changed = 0: none).
RunBatch ==
    /\ pc = "built"
    /\ returned = "graph"
    /\ mode \in {"train", "eval"}
    /\ \E T \in 0..MaxBatchSteps :
         \E x \in [1..(T * config.encoder_decoder.input_size) -> InputVals],
            lab \in [1..T -> 0..(config.encoder_decoder.num_classes - 1)],
            changed \in 0..T :
           fetched' =
               run_batch(graph, config, feed.theta,
                         BatchInputs(config.hparams.batch_size, T,
                                     config.encoder_decoder.input_size, x),
                         BatchLabels(config.hparams.batch_size, T,
                                     config.encoder_decoder.num_classes, lab),
                         BatchLabels(config.hparams.batch_size, T,
                                     config.encoder_decoder.num_classes,
                                     [t \in 1..T |->
                                        IF t = changed
                                        THEN (lab[t] + 1)
                                             % config.encoder_decoder.num_classes
                                        ELSE lab[t]]))
    /\ pc' = "ran"
    /\ UNCHANGED <<mode, config, graph, collections, config_read, raised,
                   returned, feed>>

\* What a generate run returns to the driver.
generate_fetched(k, temperature, out, input_size) ==
    [k |-> k,
     temperature |-> temperature,
     softmax |-> session_softmax(temperature),
     input_windows |-> out.input_windows,
     encodings |-> out.encodings,
     target_encodings |-> out.target_encodings,
     target_labels |-> out.target_labels,
     attention |-> out.attention,
     attention_inputs |-> attention_inputs_of(out, input_size)]

\* The driver's state after a run: the new encoding and the chosen label
\* appended, the input shifted into the buffer, the final state fed back.
driver_update(d, inputs, label, out) ==
    [d EXCEPT
       !.k = @ + 1,
       !.input_buffer = SliceFrom(tf_concat(@, inputs, 1), 1, inputs.dims[2]),
       !.labels = tf_concat(@, label, 1),
       !.past_encodings = tf_concat(@, out.encodings, 1),
       !.initial_state = dynamic_rnn(@, out.combined_inputs),
       !.inputs = tf_concat(@, inputs, 1)]

generate_run(g, cfg, d, inputs) ==
    forward(g, cfg,
            [inputs |-> inputs, input_buffer |-> d.input_buffer,
             labels |-> d.labels, past_encodings |-> d.past_encodings],
            d.theta)

\* One single-step run of a generate graph and the driver's update.
GenerateStep ==
    /\ pc \in {"built", "ran"}
    /\ returned = "graph"
    /\ mode = "generate"
    /\ feed.k < MaxInvocations
    /\ \E x \in [1..config.encoder_decoder.input_size -> InputVals],
          label \in 0..(config.encoder_decoder.num_classes - 1),
          temperature \in Temperatures :
         Let(BatchInputs(config.hparams.batch_size, 1,
                         config.encoder_decoder.input_size, x),
             LAMBDA inputs :
               Let(generate_run(graph, config, feed, inputs),
                   LAMBDA out :
                     /\ fetched' = generate_fetched(
                                       feed.k, temperature, out,
                                       config.encoder_decoder.input_size)
                     /\ feed' = driver_update(
                                    feed, inputs,
                                    BatchLabels(config.hparams.batch_size, 1,
                                                config.encoder_decoder.num_classes,
                                                <<label>>),
                                    out)))
    /\ pc' = "ran"
    /\ UNCHANGED <<mode, config, graph, collections, config_read, raised,
                   returned>>

NextRun == BuildGraph \/ RunBatch \/ GenerateStep

SpecRun == InitRun /\ [][NextRun]_vars

\* C6: a run of the generate graph with temperature <= 0 ends with the
\* configuration error and produces no output softmax.
C6_TemperatureChecked ==
    ("temperature" \in DOMAIN fetched /\ fetched.temperature <= 0) =>
        /\ raised = "ValueError"
        /\ "softmax" \notin DOMAIN fetched

\* The train-mode graph of a configuration.
TrainGraph(cfg) == build_graph("train", cfg, TRUE).graph

\* The k-th run (run.k = k) against one train-mode pass over the k + 1 inputs
\* and labels the driver d holds after it.
StepMatchesTrain(run, d, train, input_size) ==
    LET k == run.k
        B == run.attention.dims[1]
    IN  /\ d.k = k + 1
        /\ run.target_labels.dims[2] = k
        /\ run.target_encodings.dims[2] = k
        /\ run.attention.dims = <<B, 1, k>>
        /\ train.attention.dims = <<B, k + 1, k>>
        /\ train.input_windows.dims[2] = k + 1
        /\ \A b \in 0..(B - 1) :
             /\ WindowElems(run.input_windows, b, 0)
                  = WindowElems(train.input_windows, b, k)
             /\ \A j \in 0..(k - 1) :
                  /\ At(run.attention, <<b, 0, j>>)[1] > 0
                  /\ At(run.attention, <<b, 0, j>>)
                       = At(train.attention, <<b, k, j>>)
                  /\ At(run.target_labels, <<b, j>>)
                       = At(train.target_labels, <<b, j>>)
                  /\ \A e \in 0..(run.target_encodings.dims[3] - 1) :
                       At(run.target_encodings, <<b, j, e>>)
                         = At(train.target_encodings, <<b, j, e>>)
             /\ \A c \in 0..(run.attention_inputs.dims[3] - 1) :
                  At(run.attention_inputs, <<b, 0, c>>)
                    = At(attention_inputs_of(train, input_size), <<b, k, c>>)

C10_FeatureIgnoresLaterLabels ==
    (pc = "ran" /\ mode \in {"train", "eval"}) =>
        \A b \in 0..(fetched.labels.dims[1] - 1),
           i \in 0..(fetched.labels.dims[2] - 1) :
            /\ (\A j \in 0..(i - 1) :
                  At(fetched.labels, <<b, j>>) = At(fetched.labels_alt, <<b, j>>))
               => \A c \in 0..(fetched.attention_inputs.dims[3] - 1) :
                    At(fetched.attention_inputs, <<b, i, c>>)
                      = At(fetched.attention_inputs_alt, <<b, i, c>>)
            /\ \A j \in 0..(fetched.attention.dims[3] - 1) :
                 j >= i => At(fetched.attention, <<b, i, j>>) = FZero
            /\ i = 0 =>
                 \A c \in 0..(fetched.attention_inputs.dims[3] - 1) :
                   At(fetched.attention_inputs, <<b, 0, c>>) = FZero

\* A train batch of three steps whose final label was changed, and whose
\* last step has a feature that an earlier label decides.
C10_Witness ==
    /\ pc = "ran"
    /\ mode = "train"
    /\ fetched.labels.dims[2] = 3
    /\ At(fetched.labels, <<0, 2>>) # At(fetched.labels_alt, <<0, 2>>)
    /\ At(fetched.labels, <<0, 0>>) # At(fetched.labels, <<0, 1>>)
    /\ At(fetched.attention_inputs, <<0, 2, 0>>) # FZero
    /\ At(fetched.attention_inputs, <<0, 2, 1>>) # FZero

====
